---- MODULE Spec2Model ----
(***************************************************************************)
(* Model of src/exchange/currency_provider.py: four currency-rate          *)
(* providers, each with one operation get_rate() that issues one HTTP GET, *)
(* checks the status, parses the JSON body, looks up a record and converts *)
(* it to SellBuy, or raises.                                               *)
(*                                                                         *)
(* JSON documents are tagged values.  Floating-point prices are fixed      *)
(* point, in tenths (27.5 is 275).  An exception is [type, arg] with arg a *)
(* sequence of strings (the KeyError key, the pieces of a message).        *)
(***************************************************************************)
EXTENDS Integers, Sequences, FiniteSets, TLC

VARIABLES
    self,      \* the provider instance: name, currency_from, currency_to
    pc,        \* where get_rate() stands: idle, get, raise_for_status,
               \* translate, json, scan, lookup, done
    calls,     \* get_rate() calls made on the instance
    gets,      \* the URLs of the HTTP GETs issued so far
    response,  \* the response of the current call's GET
    codes,     \* currency_from_code / currency_to_code of the current call
    parsed,    \* response.json() has been called in the current call
    data,      \* what response.json() returned
    i,         \* records the for loop has examined
    outcome    \* the current call's return value or exception

vars == <<self, pc, calls, gets, response, codes, parsed, data, i, outcome>>

\* ---------------------------------------------------------------- bounds
MaxRecords == 2
MaxCalls == 2

\* ---------------------------------------------------------- JSON values
JNum(n) == [t |-> "num", n |-> n]
JStr(s) == [t |-> "str", s |-> s]
JNull == [t |-> "null"]
JObj(f) == [t |-> "obj", o |-> f]
JArr(s) == [t |-> "arr", a |-> s]
EmptyObject == JObj([k \in {} |-> JNull])

\* A response body whose text is not JSON.
Unparseable == [t |-> "invalid"]

\* ------------------------------------------------- Python result values
Ret(v) == [ok |-> TRUE, val |-> v]
Raise(type, arg) == [ok |-> FALSE, exc |-> [type |-> type, arg |-> arg]]

\* obj[key] on a parsed JSON value
Subscript(v, key) ==
    IF v.t = "obj"
    THEN IF key \in DOMAIN v.o THEN Ret(v.o[key]) ELSE Raise("KeyError", <<key>>)
    ELSE Raise("TypeError", <<>>)

\* The decimal literals float() accepts, in tenths.
FloatLiteral ==
    ("27.0" :> 270) @@ ("27.5" :> 275) @@ ("27.9" :> 279) @@ ("28.1" :> 281)
    @@ ("29.9" :> 299) @@ ("30.1" :> 301)

\* float(v)
Float(v) ==
    CASE v.t = "num" -> Ret(v.n)
      [] v.t = "str" -> IF v.s \in DOMAIN FloatLiteral
                        THEN Ret(FloatLiteral[v.s])
                        ELSE Raise("ValueError", <<>>)
      [] OTHER -> Raise("TypeError", <<>>)

\* Python truth value of a parsed JSON value
Truthy(v) ==
    CASE v.t = "null" -> FALSE
      [] v.t = "num" -> v.n /= 0
      [] v.t = "str" -> v.s /= ""
      [] v.t = "obj" -> DOMAIN v.o /= {}
      [] v.t = "arr" -> Len(v.a) > 0
      [] OTHER -> TRUE

\* ------------------------------------------------------------ providers
PROVIDERS == <<"monobank", "privatbank", "NationalBank", "VKurse">>

ArrayProviders == {"monobank", "privatbank", "NationalBank"}

Url ==
    ("monobank" :> "https://api.monobank.ua/bank/currency")
    @@ ("privatbank" :> "https://api.privatbank.ua/p24api/pubinfo?exchange&coursid=5")
    @@ ("NationalBank" :> "https://bank.gov.ua/NBUStatService/v1/statdirectory/exchange?json")
    @@ ("VKurse" :> "https://vkurse.dp.ua/course.json")

iso_from_country_code == ("UAH" :> 980) @@ ("USD" :> 840) @@ ("EUR" :> 978)

country_code == ("USD" :> "Dollar") @@ ("EUR" :> "Euro")

\* The 0.5 added to the NationalBank rate, in tenths.
Markup == 5

Currencies == {"UAH", "USD", "EUR", "GBP"}

\* The message with the two currencies in each other's place.
RateNotFoundMessage_Swapped(s) ==
    <<"Cannot find rate from ", s.currency_to, " to ", s.currency_from,
      " in provider ", s.name>>

RateNotFoundMessage(s) ==
    <<"Cannot find rate from ", s.currency_from, " to ", s.currency_to,
      " in provider ", s.name>>

\* ------------------------------------------------------ HTTP and parsing
\* The statuses a final response is given: success, a redirection status that
\* requests hands back as it is, a client error and a server error.
StatusCodes == {200, 304, 404, 500}

\* A status check that lets client errors through.
RaisesForStatus_Only5xx(status) == 500 <= status /\ status < 600

\* response.raise_for_status(): raises for 4xx and 5xx
RaisesForStatus(status) == 400 <= status /\ status < 600

\* response.json(): the parsed document, or the decoder's error
JsonOf(body) ==
    IF body.t = "invalid" THEN Raise("JSONDecodeError", <<>>) ELSE Ret(body)

\* The keys of a JSON object as a sequence, in the document's order.
ObjKeys(o) ==
    CHOOSE q \in [1..Cardinality(DOMAIN o) -> DOMAIN o] :
        \A k \in DOMAIN o : \E j \in DOMAIN q : q[j] = k

\* What `for currency in <doc>` iterates over.
Elements(doc) ==
    CASE doc.t = "arr" -> Ret(doc.a)
      [] doc.t = "obj" -> Ret([j \in 1..Cardinality(DOMAIN doc.o) |-> JStr(ObjKeys(doc.o)[j])])
      [] doc.t \in {"null", "num"} -> Raise("TypeError", <<>>)

\* ----------------------------------------------------------------- Mono
\* The lookups written with .get(): an unknown code becomes a default, not an error.
MonoTranslate_Default(s) ==
    LET code(c) == IF c \in DOMAIN iso_from_country_code
                   THEN iso_from_country_code[c] ELSE 0
    IN Ret([from |-> code(s.currency_from), to |-> code(s.currency_to)])

MonoTranslate(s) ==
    IF s.currency_from \notin DOMAIN iso_from_country_code
    THEN Raise("KeyError", <<s.currency_from>>)
    ELSE IF s.currency_to \notin DOMAIN iso_from_country_code
    THEN Raise("KeyError", <<s.currency_to>>)
    ELSE Ret([from |-> iso_from_country_code[s.currency_from],
              to |-> iso_from_country_code[s.currency_to]])

\* The condition of the if statement, evaluated left to right with `and`.
MonoMatch(currency, c) ==
    LET a == Subscript(currency, "currencyCodeA") IN
    IF ~a.ok THEN a
    ELSE IF a.val /= JNum(c.from) THEN Ret(FALSE)
    ELSE LET b == Subscript(currency, "currencyCodeB") IN
         IF ~b.ok THEN b ELSE Ret(b.val = JNum(c.to))

\* The conversion with the two rate fields in each other's place.
MonoConvert_Swapped(currency) ==
    LET s == Subscript(currency, "rateBuy") IN
    IF ~s.ok THEN s
    ELSE LET fs == Float(s.val) IN
    IF ~fs.ok THEN fs
    ELSE LET b == Subscript(currency, "rateSell") IN
    IF ~b.ok THEN b
    ELSE LET fb == Float(b.val) IN
    IF ~fb.ok THEN fb
    ELSE Ret([sell |-> fs.val, buy |-> fb.val])

\* SellBuy(sell=float(currency["rateSell"]), buy=float(currency["rateBuy"]))
MonoConvert(currency) ==
    LET s == Subscript(currency, "rateSell") IN
    IF ~s.ok THEN s
    ELSE LET fs == Float(s.val) IN
    IF ~fs.ok THEN fs
    ELSE LET b == Subscript(currency, "rateBuy") IN
    IF ~b.ok THEN b
    ELSE LET fb == Float(b.val) IN
    IF ~fb.ok THEN fb
    ELSE Ret([sell |-> fs.val, buy |-> fb.val])

\* ----------------------------------------------------------- Privatbank
\* The condition written with .get(): a missing key compares unequal.
PrivatbankMatch_Lenient(currency, s) ==
    IF currency.t /= "obj" THEN Raise("TypeError", <<>>)
    ELSE Ret(/\ "ccy" \in DOMAIN currency.o
             /\ currency.o.ccy = JStr(s.currency_from)
             /\ "base_ccy" \in DOMAIN currency.o
             /\ currency.o.base_ccy = JStr(s.currency_to))

PrivatbankMatch(currency, s) ==
    LET a == Subscript(currency, "ccy") IN
    IF ~a.ok THEN a
    ELSE IF a.val /= JStr(s.currency_from) THEN Ret(FALSE)
    ELSE LET b == Subscript(currency, "base_ccy") IN
         IF ~b.ok THEN b ELSE Ret(b.val = JStr(s.currency_to))

\* SellBuy(buy=float(currency["buy"]), sell=float(currency["sale"]))
PrivatbankConvert(currency) ==
    LET b == Subscript(currency, "buy") IN
    IF ~b.ok THEN b
    ELSE LET fb == Float(b.val) IN
    IF ~fb.ok THEN fb
    ELSE LET s == Subscript(currency, "sale") IN
    IF ~s.ok THEN s
    ELSE LET fs == Float(s.val) IN
    IF ~fs.ok THEN fs
    ELSE Ret([sell |-> fs.val, buy |-> fb.val])

\* --------------------------------------------------------- NationalBank
\* The condition also asking for the feed's base currency as currency_to.
NationalBankMatch_ChecksTo(currency, s) ==
    LET a == Subscript(currency, "cc") IN
    IF ~a.ok THEN a
    ELSE Ret(a.val = JStr(s.currency_from) /\ s.currency_to = "UAH")

NationalBankMatch(currency, s) ==
    LET a == Subscript(currency, "cc") IN
    IF ~a.ok THEN a ELSE Ret(a.val = JStr(s.currency_from))

\* <json value> + 0.5
AddMarkup(v) ==
    IF v.t = "num" THEN Ret(JNum(v.n + Markup)) ELSE Raise("TypeError", <<>>)

\* SellBuy(buy=float(currency["rate"]), sell=float(currency["rate"] + 0.5))
NationalBankConvert(currency) ==
    LET b == Subscript(currency, "rate") IN
    IF ~b.ok THEN b
    ELSE LET fb == Float(b.val) IN
    IF ~fb.ok THEN fb
    ELSE LET sum == AddMarkup(b.val) IN
    IF ~sum.ok THEN sum
    ELSE LET fs == Float(sum.val) IN
    IF ~fs.ok THEN fs
    ELSE Ret([sell |-> fs.val, buy |-> fb.val])

\* --------------------------------------------------------------- VKurse
\* The lookup written with .get(): an unknown code becomes None, not an error.
VKurseTranslate_Default(s) ==
    Ret([from |-> IF s.currency_from \in DOMAIN country_code
                  THEN country_code[s.currency_from] ELSE "None"])

VKurseTranslate(s) ==
    IF s.currency_from \notin DOMAIN country_code
    THEN Raise("KeyError", <<s.currency_from>>)
    ELSE Ret([from |-> country_code[s.currency_from]])

\* The lookup made with the alphabetic code instead of the mapped name.
VKurseGet_ByCurrency(doc, key) ==
    IF doc.t /= "obj" THEN Raise("AttributeError", <<>>)
    ELSE IF self.currency_from \in DOMAIN doc.o
         THEN Ret(doc.o[self.currency_from]) ELSE Ret(JNull)

\* response.json().get(currency_from_code)
VKurseGet(doc, key) ==
    IF doc.t /= "obj" THEN Raise("AttributeError", <<>>)
    ELSE IF key \in DOMAIN doc.o THEN Ret(doc.o[key]) ELSE Ret(JNull)

\* SellBuy(sell=float(currency_data['sale']), buy=float(currency_data['buy']))
VKurseConvert(currency_data) ==
    LET s == Subscript(currency_data, "sale") IN
    IF ~s.ok THEN s
    ELSE LET fs == Float(s.val) IN
    IF ~fs.ok THEN fs
    ELSE LET b == Subscript(currency_data, "buy") IN
    IF ~b.ok THEN b
    ELSE LET fb == Float(b.val) IN
    IF ~fb.ok THEN fb
    ELSE Ret([sell |-> fs.val, buy |-> fb.val])

\* ------------------------------------------------- responses considered
MonoRecords ==
    { JObj([currencyCodeA |-> JNum(840), currencyCodeB |-> JNum(980),
            rateSell |-> JStr("27.5"), rateBuy |-> JStr("27.0")]),
      JObj([currencyCodeA |-> JNum(840), currencyCodeB |-> JNum(980),
            rateSell |-> JNum(281), rateBuy |-> JNum(279)]),
      JObj([currencyCodeA |-> JNum(978), currencyCodeB |-> JNum(980),
            rateSell |-> JStr("30.1"), rateBuy |-> JStr("29.9")]),
      JObj([currencyCodeB |-> JNum(980),
            rateSell |-> JStr("27.5"), rateBuy |-> JStr("27.0")]),
      JObj([currencyCodeA |-> JNum(840)]),
      JObj([currencyCodeA |-> JNum(840), currencyCodeB |-> JNum(980),
            rateSell |-> JStr("n/a"), rateBuy |-> JStr("27.0")]),
      JNull }

PrivatbankRecords ==
    { JObj([ccy |-> JStr("USD"), base_ccy |-> JStr("UAH"),
            buy |-> JStr("27.0"), sale |-> JStr("27.5")]),
      JObj([ccy |-> JStr("USD"), base_ccy |-> JStr("UAH"),
            buy |-> JStr("27.9"), sale |-> JStr("28.1")]),
      JObj([ccy |-> JStr("EUR"), base_ccy |-> JStr("UAH"),
            buy |-> JStr("29.9"), sale |-> JStr("30.1")]),
      JObj([base_ccy |-> JStr("UAH"),
            buy |-> JStr("27.0"), sale |-> JStr("27.5")]),
      JObj([ccy |-> JStr("USD")]),
      JObj([ccy |-> JStr("USD"), base_ccy |-> JStr("UAH"),
            buy |-> JNull, sale |-> JStr("27.5")]),
      JNull }

NationalBankRecords ==
    { JObj([cc |-> JStr("USD"), rate |-> JNum(270)]),
      JObj([cc |-> JStr("USD"), rate |-> JNum(279)]),
      JObj([cc |-> JStr("EUR"), rate |-> JNum(299)]),
      JObj([rate |-> JNum(270)]),
      JObj([cc |-> JStr("USD")]),
      JObj([cc |-> JStr("USD"), rate |-> JStr("27.0")]),
      JNull }

VKurseValues ==
    { JObj([sale |-> JStr("27.5"), buy |-> JStr("27.0")]),
      JObj([sale |-> JStr("30.1"), buy |-> JStr("29.9")]),
      JObj([sale |-> JStr("30.1")]),
      EmptyObject,
      JNull }

VKurseDocs ==
    { JObj(o) : o \in UNION { [K -> VKurseValues] : K \in SUBSET {"Dollar", "Euro"} } }

SeqsUpTo(S, n) == UNION { [1..k -> S] : k \in 0..n }

ErrorDoc == JObj([errorDescription |-> JStr("Too many requests")])

RecordsOf(name) ==
    CASE name = "monobank" -> MonoRecords
      [] name = "privatbank" -> PrivatbankRecords
      [] name = "NationalBank" -> NationalBankRecords

\* The bodies a provider's endpoint may answer with.
Bodies(name) ==
    IF name \in ArrayProviders
    THEN {Unparseable, JNull, ErrorDoc}
         \cup { JArr(q) : q \in SeqsUpTo(RecordsOf(name), MaxRecords) }
    ELSE {Unparseable, JArr(<<>>)} \cup VKurseDocs

\* ---------------------------------------------------------------- state
NoResponse == [t |-> "none"]
NoCodes == [t |-> "none"]
NoData == [t |-> "none"]
NoOutcome == [kind |-> "none"]
Returned(v) == [kind |-> "return", value |-> v]
Raised(exc) == [kind |-> "raise", exc |-> exc]

\* What a finished expression leaves as the call's outcome.
OutcomeOf(r) == IF r.ok THEN Returned(r.val) ELSE Raised(r.exc)

Init ==
    /\ \E name \in {PROVIDERS[k] : k \in DOMAIN PROVIDERS} :
       \E cf \in Currencies, ct \in Currencies :
          self = [name |-> name, currency_from |-> cf, currency_to |-> ct]
    /\ pc = "idle"
    /\ calls = 0
    /\ gets = <<>>
    /\ response = NoResponse
    /\ codes = NoCodes
    /\ parsed = FALSE
    /\ data = NoData
    /\ i = 0
    /\ outcome = NoOutcome

\* get_rate() is entered: a fresh frame.
Call ==
    /\ pc \in {"idle", "done"}
    /\ calls < MaxCalls
    /\ calls' = calls + 1
    /\ pc' = "get"
    /\ response' = NoResponse
    /\ codes' = NoCodes
    /\ parsed' = FALSE
    /\ data' = NoData
    /\ i' = 0
    /\ outcome' = NoOutcome
    /\ UNCHANGED <<self, gets>>

\* A GET that is sent again.
requests_get_Retry(log, url) == Append(Append(log, url), url)

\* requests.get(url) puts one request on the wire.
requests_get(log, url) == Append(log, url)

\* response = requests.get(url)
Get ==
    /\ pc = "get"
    /\ gets' = requests_get(gets, Url[self.name])
    /\ \/ /\ outcome' = Raised([type |-> "ConnectionError", arg |-> <<>>])
          /\ pc' = "done"
          /\ UNCHANGED response
       \/ /\ \E status \in StatusCodes, body \in Bodies(self.name) :
                response' = [t |-> "response", status |-> status, body |-> body]
          /\ pc' = "raise_for_status"
          /\ UNCHANGED outcome
    /\ UNCHANGED <<self, calls, codes, parsed, data, i>>

\* response.raise_for_status()
RaiseForStatus ==
    /\ pc = "raise_for_status"
    /\ IF RaisesForStatus(response.status)
       THEN /\ outcome' = Raised([type |-> "HTTPError", arg |-> <<>>])
            /\ pc' = "done"
       ELSE /\ pc' = IF self.name \in {"monobank", "VKurse"} THEN "translate" ELSE "json"
            /\ UNCHANGED outcome
    /\ UNCHANGED <<self, calls, gets, response, codes, parsed, data, i>>

\* The two iso_from_country_code lookups of MonoProvider.get_rate.
MonoTranslateStep ==
    /\ pc = "translate"
    /\ self.name = "monobank"
    /\ LET r == MonoTranslate(self) IN
       IF r.ok
       THEN /\ codes' = r.val
            /\ pc' = "json"
            /\ UNCHANGED outcome
       ELSE /\ outcome' = Raised(r.exc)
            /\ pc' = "done"
            /\ UNCHANGED codes
    /\ UNCHANGED <<self, calls, gets, response, parsed, data, i>>

\* The country_code lookup of VKurseProvider.get_rate.
VKurseTranslateStep ==
    /\ pc = "translate"
    /\ self.name = "VKurse"
    /\ LET r == VKurseTranslate(self) IN
       IF r.ok
       THEN /\ codes' = r.val
            /\ pc' = "json"
            /\ UNCHANGED outcome
       ELSE /\ outcome' = Raised(r.exc)
            /\ pc' = "done"
            /\ UNCHANGED codes
    /\ UNCHANGED <<self, calls, gets, response, parsed, data, i>>

\* response.json(), and for the array providers the start of the for loop.
Json ==
    /\ pc = "json"
    /\ parsed' = TRUE
    /\ LET r == JsonOf(response.body) IN
       IF ~r.ok
       THEN /\ outcome' = Raised(r.exc)
            /\ pc' = "done"
            /\ UNCHANGED data
       ELSE IF self.name \in ArrayProviders /\ ~Elements(r.val).ok
       THEN /\ outcome' = Raised(Elements(r.val).exc)
            /\ pc' = "done"
            /\ UNCHANGED data
       ELSE /\ data' = r.val
            /\ pc' = IF self.name \in ArrayProviders THEN "scan" ELSE "lookup"
            /\ UNCHANGED outcome
    /\ UNCHANGED <<self, calls, gets, response, codes, i>>

\* One turn of a for loop: m is the if condition on the next record and conv
\* the SellBuy built from it; the loop's end raises RateNotFound.
ScanTurn(m, conv) ==
    IF i >= Len(Elements(data).val)
    THEN /\ outcome' = Raised([type |-> "RateNotFound", arg |-> RateNotFoundMessage(self)])
         /\ pc' = "done"
         /\ UNCHANGED i
    ELSE /\ i' = i + 1
         /\ IF ~m.ok
            THEN outcome' = Raised(m.exc) /\ pc' = "done"
            ELSE IF m.val
            THEN outcome' = OutcomeOf(conv) /\ pc' = "done"
            ELSE UNCHANGED <<outcome, pc>>

MonoScan ==
    /\ pc = "scan"
    /\ self.name = "monobank"
    /\ LET currency == Elements(data).val[i + 1] IN
       ScanTurn(MonoMatch(currency, codes), MonoConvert(currency))
    /\ UNCHANGED <<self, calls, gets, response, codes, parsed, data>>

PrivatbankScan ==
    /\ pc = "scan"
    /\ self.name = "privatbank"
    /\ LET currency == Elements(data).val[i + 1] IN
       ScanTurn(PrivatbankMatch(currency, self), PrivatbankConvert(currency))
    /\ UNCHANGED <<self, calls, gets, response, codes, parsed, data>>

NationalBankScan ==
    /\ pc = "scan"
    /\ self.name = "NationalBank"
    /\ LET currency == Elements(data).val[i + 1] IN
       ScanTurn(NationalBankMatch(currency, self), NationalBankConvert(currency))
    /\ UNCHANGED <<self, calls, gets, response, codes, parsed, data>>

\* .get(currency_from_code), the truth test and the conversion of VKurse.
VKurseLookup ==
    /\ pc = "lookup"
    /\ LET r == VKurseGet(data, codes.from) IN
       outcome' = IF ~r.ok THEN Raised(r.exc)
                  ELSE IF Truthy(r.val) THEN OutcomeOf(VKurseConvert(r.val))
                  ELSE Raised([type |-> "RateNotFound", arg |-> RateNotFoundMessage(self)])
    /\ pc' = "done"
    /\ UNCHANGED <<self, calls, gets, response, codes, parsed, data, i>>

Next ==
    \/ Call
    \/ Get
    \/ RaiseForStatus
    \/ MonoTranslateStep
    \/ VKurseTranslateStep
    \/ Json
    \/ MonoScan
    \/ PrivatbankScan
    \/ NationalBankScan
    \/ VKurseLookup

Spec == Init /\ [][Next]_vars

\* ======================================================================
\* Properties
\* ======================================================================
Done == pc = "done"

Answered == response.t = "response"

\* The GET came back with a status that is no HTTP error (below 400).
Succeeded == Answered /\ response.status < 400

\* The GET came back with an HTTP error status (4xx, 5xx).
Failed == Answered /\ response.status >= 400

RaisedType(type) == outcome.kind = "raise" /\ outcome.exc.type = type

RaisedKeyError(key) == RaisedType("KeyError") /\ outcome.exc.arg = <<key>>

Has(r, k) == r.t = "obj" /\ k \in DOMAIN r.o

\* The requested currencies are in the provider's code table.
Mapped(s) ==
    CASE s.name = "monobank" ->
            {s.currency_from, s.currency_to} \subseteq {"UAH", "USD", "EUR"}
      [] s.name = "VKurse" -> s.currency_from \in {"USD", "EUR"}
      [] OTHER -> TRUE

NumericCode == ("UAH" :> 980) @@ ("USD" :> 840) @@ ("EUR" :> 978)

EnglishName == ("USD" :> "Dollar") @@ ("EUR" :> "Euro")

FirstKey == ("monobank" :> "currencyCodeA") @@ ("privatbank" :> "ccy") @@ ("NationalBank" :> "cc")

MatchKeys ==
    ("monobank" :> {"currencyCodeA", "currencyCodeB"})
    @@ ("privatbank" :> {"ccy", "base_ccy"})
    @@ ("NationalBank" :> {"cc"})

\* What the first key of a record must equal.
FirstTarget(s) ==
    IF s.name = "monobank" THEN JNum(NumericCode[s.currency_from])
    ELSE JStr(s.currency_from)

\* The matching rule of each array provider.
IsMatch(s, r) ==
    /\ Mapped(s)
    /\ \A k \in MatchKeys[s.name] : Has(r, k)
    /\ r.o[FirstKey[s.name]] = FirstTarget(s)
    /\ s.name = "monobank" => r.o.currencyCodeB = JNum(NumericCode[s.currency_to])
    /\ s.name = "privatbank" => r.o.base_ccy = JStr(s.currency_to)

IsNumeric(v) == v.t = "num" \/ (v.t = "str" /\ v.s \in DOMAIN FloatLiteral)

NumericValue(v) == IF v.t = "num" THEN v.n ELSE FloatLiteral[v.s]

SellKey ==
    ("monobank" :> "rateSell") @@ ("privatbank" :> "sale") @@ ("VKurse" :> "sale")

BuyKey ==
    ("monobank" :> "rateBuy") @@ ("privatbank" :> "buy") @@ ("VKurse" :> "buy")

\* The record's rate fields are there and are numbers (NationalBank: a JSON number).
HasRates(s, r) ==
    IF s.name = "NationalBank"
    THEN Has(r, "rate") /\ r.o.rate.t = "num"
    ELSE /\ Has(r, SellKey[s.name]) /\ IsNumeric(r.o[SellKey[s.name]])
         /\ Has(r, BuyKey[s.name]) /\ IsNumeric(r.o[BuyKey[s.name]])

\* The rate pair the specification assigns to a record.
ExpectedPair(s, r) ==
    IF s.name = "NationalBank"
    THEN [sell |-> r.o.rate.n + 5, buy |-> r.o.rate.n]
    ELSE [sell |-> NumericValue(r.o[SellKey[s.name]]),
          buy |-> NumericValue(r.o[BuyKey[s.name]])]

Min(S) == CHOOSE x \in S : \A y \in S : x <= y

\* The records of an array response, and the places of the matching ones.
Recs == IF Answered /\ response.body.t = "arr" THEN response.body.a ELSE <<>>

MatchIdx == {j \in DOMAIN Recs : IsMatch(self, Recs[j])}

\* The VKurse response holds the mapped key.
HoldsMappedKey ==
    /\ Mapped(self)
    /\ response.body.t = "obj"
    /\ EnglishName[self.currency_from] \in DOMAIN response.body.o

MappedValue == response.body.o[EnglishName[self.currency_from]]

\* The response holds a record matching the requested pair, and the first one.
HasMatch ==
    IF self.name = "VKurse" THEN HoldsMappedKey ELSE MatchIdx /= {}

FirstMatching == IF self.name = "VKurse" THEN MappedValue ELSE Recs[Min(MatchIdx)]

ReturnsFirstMatch ==
    /\ HasRates(self, FirstMatching)
    /\ outcome = Returned(ExpectedPair(self, FirstMatching))

\* Every record ahead of the first match is an object with the matching keys.
CleanPrefix ==
    self.name \in ArrayProviders =>
        \A j \in 1..(Min(MatchIdx) - 1) : \A k \in MatchKeys[self.name] : Has(Recs[j], k)

\* C1 as stated: when the GET succeeds and the parsed response holds a record
\* matching the requested pair, get_rate() returns the rate pair of the first
\* matching record.
C1_FirstMatchAsStated ==
    (Done /\ Succeeded /\ HasMatch) => ReturnsFirstMatch

\* C1 amended: as C1, provided every record ahead of the first match is an
\* object holding the provider's matching keys and the first match's rate
\* fields are present and numeric.
C1_FirstMatch ==
    (Done /\ Succeeded /\ HasMatch /\ CleanPrefix /\ HasRates(self, FirstMatching))
        => ReturnsFirstMatch

\* Mono answered two matching records with different rates and the first won.
C1_Witness ==
    /\ Done /\ self.name = "monobank" /\ Succeeded
    /\ Len(Recs) = 2 /\ MatchIdx = {1, 2}
    /\ HasRates(self, Recs[2])
    /\ ExpectedPair(self, Recs[1]) /= ExpectedPair(self, Recs[2])
    /\ outcome = Returned(ExpectedPair(self, Recs[1]))

\* Every record (VKurse: every value) has all its fields, with numeric rates.
WellFormedBody ==
    IF self.name = "VKurse"
    THEN /\ response.body.t = "obj"
         /\ \A k \in DOMAIN response.body.o : HasRates(self, response.body.o[k])
    ELSE /\ response.body.t = "arr"
         /\ \A j \in DOMAIN Recs :
               /\ \A k \in MatchKeys[self.name] : Has(Recs[j], k)
               /\ HasRates(self, Recs[j])

RaisedRateNotFound ==
    /\ RaisedType("RateNotFound")
    /\ outcome.exc.arg = <<"Cannot find rate from ", self.currency_from, " to ",
                           self.currency_to, " in provider ", self.name>>

\* C2 as stated: when the GET succeeds, the body is well-formed and no record
\* matches, get_rate() raises RateNotFound with the message naming from, to and
\* the provider.
C2_NotFoundAsStated ==
    (Done /\ Succeeded /\ WellFormedBody /\ ~HasMatch) => RaisedRateNotFound

\* C2 amended: as C2, provided the requested currencies are in the provider's
\* code table (Mono: from and to; VKurse: from).
C2_NotFound ==
    (Done /\ Succeeded /\ WellFormedBody /\ ~HasMatch /\ Mapped(self))
        => RaisedRateNotFound

\* Privatbank answered well-formed records, none matched, RateNotFound raised.
C2_Witness ==
    /\ Done /\ self.name = "privatbank" /\ Succeeded
    /\ WellFormedBody /\ Len(Recs) = 2 /\ ~HasMatch
    /\ self.currency_from /= self.currency_to
    /\ RaisedRateNotFound

C4_ExactlyOneGet ==
    /\ Len(gets) = IF pc = "get" THEN calls - 1 ELSE calls
    /\ \A k \in DOMAIN gets :
          gets[k] = CASE self.name = "monobank" -> "https://api.monobank.ua/bank/currency"
                      [] self.name = "privatbank" ->
                            "https://api.privatbank.ua/p24api/pubinfo?exchange&coursid=5"
                      [] self.name = "NationalBank" ->
                            "https://bank.gov.ua/NBUStatService/v1/statdirectory/exchange?json"
                      [] self.name = "VKurse" -> "https://vkurse.dp.ua/course.json"

\* The second call of an instance ended in an error and two GETs were issued.
C4_Witness ==
    Done /\ calls = 2 /\ Len(gets) = 2 /\ outcome.kind = "raise" /\ ~RaisedType("RateNotFound")

\* C5: with a currency outside the code table Mono and VKurse never return a
\* rate pair, and Mono, given a successful status, raises the raw KeyError.
C5_UnmappedNeverReturns ==
    (self.name \in {"monobank", "VKurse"} /\ ~Mapped(self)) =>
        /\ outcome.kind /= "return"
        /\ (self.name = "monobank" /\ Done /\ Succeeded) =>
               /\ RaisedType("KeyError")
               /\ outcome.exc.arg \in {<<self.currency_from>>, <<self.currency_to>>}

\* Mono asked for GBP against a parseable response ended in KeyError.
C5_Witness ==
    /\ Done /\ self.name = "monobank" /\ Succeeded
    /\ self.currency_from = "USD" /\ self.currency_to = "GBP"
    /\ response.body.t = "arr" /\ Len(Recs) > 0
    /\ RaisedKeyError("GBP")

UnmappedVKurse == self.name = "VKurse" /\ ~Mapped(self)

\* C6 as stated: VKurse with an unmapped currency_from and a successful
\* response ends in RateNotFound.
C6_UnmappedFallsThroughAsStated ==
    (Done /\ UnmappedVKurse /\ Succeeded) => RaisedType("RateNotFound")

\* C6 amended: VKurse with an unmapped currency_from and a successful status
\* raises the raw KeyError of the mapping step; the body is never parsed and
\* RateNotFound is not raised.
C6_UnmappedRaisesKeyError ==
    (Done /\ UnmappedVKurse /\ Succeeded) =>
        RaisedKeyError(self.currency_from) /\ ~parsed

\* VKurse asked for UAH against a well-formed response ended in KeyError.
C6_Witness ==
    /\ Done /\ UnmappedVKurse /\ Succeeded
    /\ self.currency_from = "UAH"
    /\ response.body.t = "obj" /\ DOMAIN response.body.o = {"Dollar", "Euro"}
    /\ RaisedKeyError("UAH")

CcIdx == {j \in DOMAIN Recs : Has(Recs[j], "cc") /\ Recs[j].o.cc = JStr(self.currency_from)}

NationalBankPair ==
    LET r == Recs[Min(CcIdx)] IN
    /\ Has(r, "rate") /\ r.o.rate.t = "num"
    /\ outcome = Returned([buy |-> r.o.rate.n, sell |-> r.o.rate.n + 5])
    /\ outcome.value.sell - outcome.value.buy = 5

NotFoundOnlyWithoutCc == RaisedType("RateNotFound") => CcIdx = {}

Stops(s, r) ==
    \/ ~Has(r, FirstKey[s.name])
    \/ /\ r.o[FirstKey[s.name]] = FirstTarget(s)
       /\ \/ IsMatch(s, r)
          \/ \E k \in MatchKeys[s.name] : ~Has(r, k)

StopIdx == {j \in DOMAIN Recs : Stops(self, Recs[j])}

\* The places of the objects that lack the provider's first matching key.
LackIdx == {j \in DOMAIN Recs : Recs[j].t = "obj" /\ ~Has(Recs[j], FirstKey[self.name])}

\* C10: the array providers examine records in response order and stop at the
\* first that matches or is malformed: the number of records examined is the
\* place of that record, and a record lacking the first matching key ahead of
\* the first match makes the call fail with the malformed-response error (the
\* missing field's KeyError when it is the first stop) instead of a rate pair.
C10_StopsAtFirst ==
    (Done /\ self.name \in ArrayProviders /\ Succeeded /\ Mapped(self)
          /\ response.body.t = "arr") =>
        /\ i = IF StopIdx = {} THEN Len(Recs) ELSE Min(StopIdx)
        /\ \A j \in LackIdx :
              (\A m \in MatchIdx : j < m) =>
                 /\ outcome.kind = "raise"
                 /\ outcome.exc.type \in {"KeyError", "TypeError"}
                 /\ i <= j
                 /\ j = Min(StopIdx) => RaisedKeyError(FirstKey[self.name])

\* Privatbank: a record without ccy ahead of a well-formed match: KeyError.
C10_Witness ==
    /\ Done /\ self.name = "privatbank" /\ Succeeded
    /\ Len(Recs) = 2 /\ LackIdx = {1} /\ MatchIdx = {2}
    /\ HasRates(self, Recs[2])
    /\ RaisedKeyError("ccy") /\ i = 1

====
